---- MODULE Spec2Model ----
(***************************************************************************)
(* Model of the qualification-slot core of Ironman-Analyzer:               *)
(*   calculate_slot_allocation  (src/analyze.py 111-278)                   *)
(*   determine_qualifiers       (src/analyze.py 281-308)                   *)
(* The allocator is modelled phase by phase (each loop of the function is  *)
(* one action; the zero-finisher loop is one action per row), the selector *)
(* as one action.                                                          *)
(***************************************************************************)
EXTENDS Integers, Sequences, FiniteSets, TLC

\* ------------------------------------------------------------------ bounds
MaxRows == 3        \* longest roster drawn by Init
MaxSlots == 3       \* largest slot quota drawn by Init
MaxRank == 3        \* largest age_group_rank of the selector runs
MaxShareRows == 6   \* most female starters of the share runs
MaxShareSlots == 5  \* largest women's quota of the share runs
MaxScreenRows == 2  \* most roster rows of the screen runs
MaxScreenSlots == 1 \* largest quota of the screen runs
MaxPageLimit == 2   \* largest max_pages argument of the scraper runs
MaxSitePages == 4   \* race-list pages the site can serve before it runs out
MaxCards == 2       \* most race cards on one race-list page

\* The category labels the rosters and selector.json lists are drawn from,
\* in the order selector.json lists them.
LabelOrder == <<"M35-39", "M40-44", "F18-24", "F25-29", "F30-34", "PC">>

Range(s) == {s[i] : i \in DOMAIN s}

Labels == Range(LabelOrder)

\* pl.col("age_group").str.slice(0, 1): the leading character of the label.
Gender(ag) ==
    CASE ag \in {"M35-39", "M40-44"} -> "M"
      [] ag \in {"F18-24", "F25-29", "F30-34"} -> "F"
      [] ag = "PC" -> "P"

Max(a, b) == IF a >= b THEN a ELSE b

RECURSIVE SumSeq(_)
SumSeq(s) == IF s = <<>> THEN 0 ELSE Head(s) + SumSeq(Tail(s))

\* Python's list.sort(key=..., reverse=True) and the ascending polars sort,
\* as a stable sort: s[i] comes before s[j] when before[i][j], and elements
\* neither of which is before the other keep their input order.
StablePos(s, i, before) ==
    1 + Cardinality({j \in DOMAIN s :
            \/ before[j][i]
            \/ (~before[i][j] /\ j < i)})

StableSort(s, before) ==
    [p \in DOMAIN s |-> s[CHOOSE i \in DOMAIN s : StablePos(s, i, before) = p]]

\* All orders in which a set of labels can be listed.
Perms(S) ==
    {q \in [1..Cardinality(S) -> S] : \A a \in S : \E i \in DOMAIN q : q[i] = a}

\* LabelOrder restricted to the labels of S.
SubList(S) == SelectSeq(LabelOrder, LAMBDA ag : ag \in S)

\* ------------------------------------------------------------------- state
VARIABLES
    data_frame,          \* the roster: sequence of rows, row_idx = position - 1
    mens_slots,          \* input quota
    womens_slots,        \* input quota
    valid_age_groups,    \* data["agegroups"] of selector.json, a list
    pc,                  \* position in calculate_slot_allocation / caller
    slot_df,             \* aggregated rows, in the order group_by emitted them
    slot_allocation,     \* dict age_group -> slots
    male_slots_total,    \* remaining male budget
    female_slots_total,  \* remaining female budget
    male_props,          \* male_groups with the prop_slots column
    female_props,        \* female_groups with the prop_slots column
    row_i,               \* position of the zero-finisher loop in slot_df
    dropped,             \* history: slots withdrawn and handed to nobody, per budget
    qualifiers,          \* result of determine_qualifiers
    scraper_pc,          \* position in get_race_links: idle, loop, returned
    max_pages,           \* argument of get_race_links, None or an integer
    page,                \* page of get_race_links
    race_links,          \* race_links of get_race_links
    requests,            \* history: number of requests.get calls made
    response,            \* history: the last response requests.get returned
    screen               \* the fields of IronmanResultsScreen and its table

scraper_vars == <<scraper_pc, max_pages, page, race_links, requests, response>>

vars == <<data_frame, mens_slots, womens_slots, valid_age_groups, pc, slot_df,
          slot_allocation, male_slots_total, female_slots_total, male_props,
          female_props, row_i, dropped, qualifiers, scraper_vars, screen>>

\* A roster row.  age_group_rank is 0 for a row that did not finish (the
\* selector never reads it).
Row(ag, fin, rk) == [age_group |-> ag, finisher |-> fin, age_group_rank |-> rk]

\* Ranks of the finishers of one category are pairwise different.
TotalOrder(df) ==
    \A i, j \in DOMAIN df :
        (/\ i # j
         /\ df[i].finisher /\ df[j].finisher
         /\ df[i].age_group = df[j].age_group)
            => df[i].age_group_rank # df[j].age_group_rank

LabelIndex(ag) == CHOOSE i \in DOMAIN LabelOrder : LabelOrder[i] = ag

\* The labels of the allocator runs: one male category, two female ones and
\* one whose label starts with neither M nor F.
AllocLabels == {"M35-39", "F18-24", "F25-29", "PC"}

\* Rosters of the allocator runs: at most MaxRows rows listed category by
\* category, the finishers of a category before its other starters, the
\* finishers of a category ranked 1, 2, ... in row order (scheme "asc") or
\* against it (scheme "desc").
Entries ==
    {e \in UNION {[1..n -> AllocLabels \X BOOLEAN] : n \in 0..MaxRows} :
        \A i, j \in DOMAIN e :
            i < j => \/ LabelIndex(e[i][1]) < LabelIndex(e[j][1])
                     \/ e[i][1] = e[j][1] /\ (e[j][2] => e[i][2])}

RankOf(e, i, scheme) ==
    IF ~e[i][2] THEN 0
    ELSE 1 + Cardinality({j \in DOMAIN e :
                /\ e[j][1] = e[i][1] /\ e[j][2]
                /\ IF scheme = "asc" THEN j < i ELSE j > i})

Ranked(e, scheme) ==
    [i \in DOMAIN e |-> Row(e[i][1], e[i][2], RankOf(e, i, scheme))]

Rosters == {Ranked(e, "asc") : e \in Entries}

\* The selector.json lists of the allocator runs: AllocLabels and AllocLabels
\* without one of its labels.
ValidLists ==
    {SubList(S) :
        S \in {AllocLabels} \cup {AllocLabels \ {ag} : ag \in AllocLabels}}

\* The slot quotas a caller keeps to.
Quotas == 0..MaxSlots

\* The men's quotas of the allocator runs, which have one male category: a
\* quota below its minimum guarantee, equal to it and above it.
MensQuotas == {0, 1, MaxSlots}

\* ------------------------------------------------------------ aggregation
\* Variant of InScope: the is_in filter of line 139 is left out.
InScope_Unfiltered(df, valid) == DOMAIN df

\* df.filter(pl.col("age_group").is_in(valid_age_groups)): positions kept.
InScope(df, valid) == {i \in DOMAIN df : df[i].age_group \in Range(valid)}

\* pl.sum("starters") of one group of the filtered frame.
StartersCount(df, valid, ag) ==
    Cardinality({i \in InScope(df, valid) : df[i].age_group = ag})

\* pl.len() of one group of finishers_df, null filled with 0 by the left join.
FinishersCount(df, valid, ag) ==
    Cardinality({i \in InScope(df, valid) : df[i].age_group = ag /\ df[i].finisher})

\* The groups group_by produces: one per label that has a row in scope.
GroupKeys(df, valid) == {df[i].age_group : i \in InScope(df, valid)}

SlotRow(df, valid, ag) ==
    [age_group |-> ag,
     gender |-> Gender(ag),
     starters_count |-> StartersCount(df, valid, ag),
     finishers_count |-> FinishersCount(df, valid, ag)]

\* slot_df.filter((gender == "M") & (starters_count > 0))
male_groups ==
    SelectSeq(slot_df, LAMBDA r : r.gender = "M" /\ r.starters_count > 0)

\* slot_df.filter((gender == "F") & (starters_count > 0))
female_groups ==
    SelectSeq(slot_df, LAMBDA r : r.gender = "F" /\ r.starters_count > 0)

\* ---------------------------------------------------- proportional shares
\* prop_slots = starters_count / total_starters * slots_total, kept as the
\* three integers it is computed from.
WithProps(groups, total, budget) ==
    [i \in DOMAIN groups |->
        [age_group |-> groups[i].age_group,
         s |-> groups[i].starters_count, T |-> total, R |-> budget]]

\* Variant of IntPart: the share is rounded up instead of truncated.
IntPart_Ceiling(p) == (p.s * p.R + p.T - 1) \div p.T

\* int(row["prop_slots"]): float64 s / T * R truncates to the exact floor
\* (the two agree for every 1 <= s <= T <= 16, 1 <= R <= 11).
IntPart(p) == (p.s * p.R) \div p.T

\* Numerator over T of the exact fractional part of prop_slots.
FracNum(p) == (p.s * p.R) % p.T

\* float64 rounding of prop_slots - int(prop_slots): where two categories
\* that can share a roster have the same exact fractional part, the float64
\* values differ only for T = 6, s in {1, 4}, R in {2, 4, 8} (for T, R <= 8),
\* and there the value computed for s = 4 is the smaller one.
FloatNoise(p) ==
    IF p.T = 6 /\ p.s \in {1, 4} /\ p.R \in {2, 4, 8} THEN 0 - p.s ELSE 0

\* Variant of DecimalGreater: the sort of line 205 without reverse=True.
DecimalGreater_Ascending(p, q) ==
    \/ FracNum(p) * q.T < FracNum(q) * p.T
    \/ /\ FracNum(p) * q.T = FracNum(q) * p.T
       /\ FloatNoise(p) < FloatNoise(q)

\* decimal_part of p is greater than decimal_part of q.
DecimalGreater(p, q) ==
    \/ FracNum(p) * q.T > FracNum(q) * p.T
    \/ /\ FracNum(p) * q.T = FracNum(q) * p.T
       /\ FloatNoise(p) > FloatNoise(q)

\* Variant of decimal_parts: the list is left in row order.
decimal_parts_Unsorted(props) == props

\* decimal_parts.sort(key=lambda x: x[1], reverse=True)
decimal_parts(props) ==
    StableSort(props,
        [i \in DOMAIN props |->
            [j \in DOMAIN props |-> DecimalGreater(props[i], props[j])]])

\* The categories that get one more slot in
\*   for i in range(int(slots_total)): if i < len(decimal_parts): ... += 1
\* (each index is visited once, so a category gets at most one).
RemainderWinners(props, budget) ==
    {decimal_parts(props)[i].age_group :
        i \in {j \in DOMAIN props : j <= budget}}

\* ------------------------------------------------ zero-finisher targets
\* ratio = starters_count / max(1, slot_allocation.get(tgroup, 1))
Ratios(targets, alloc) ==
    [i \in DOMAIN targets |->
        [tgroup |-> targets[i].age_group,
         s |-> targets[i].starters_count,
         a |-> Max(1, IF targets[i].age_group \in DOMAIN alloc
                        THEN alloc[targets[i].age_group] ELSE 1)]]

\* ratio of x is greater than ratio of y (quotients of small integers:
\* float64 division orders them as the exact quotients).
RatioGreater(x, y) == x.s * y.a > y.s * x.a

\* Variant of TargetGroups: the finishers_count > 0 filter of lines 255 and
\* 257 is left out.
TargetGroups_AllStarters(gender) ==
    IF gender = "M" THEN male_groups ELSE female_groups

\* target_groups of a withdrawn row
TargetGroups(gender) ==
    IF gender = "M"
    THEN SelectSeq(male_groups, LAMBDA r : r.finishers_count > 0)
    ELSE SelectSeq(female_groups, LAMBDA r : r.finishers_count > 0)

\* The budget a category is charged to: "M", and everything else "F".
Budget(gender) == IF gender = "M" THEN "M" ELSE "F"

\* --------------------------------------------------------------- selector
\* df.with_row_index("row_idx")
WithRowIndex(df) ==
    [i \in DOMAIN df |->
        [row_idx |-> i - 1, age_group |-> df[i].age_group,
         finisher |-> df[i].finisher, age_group_rank |-> df[i].age_group_rank]]

\* Variant of RankLess: the sort of line 302 descending.
RankLess_Descending(x, y) == x.age_group_rank > y.age_group_rank

\* group_df.sort("age_group_rank"): x sorts before y.
RankLess(x, y) == x.age_group_rank < y.age_group_rank

\* group_df.head(slots)
HeadN(s, n) == SubSeq(s, 1, IF n < Len(s) THEN n ELSE Len(s))

\* Variant of TopFinishers: the finisher condition of line 296 is left out.
TopFinishers_AllStarters(df, ag, slots) ==
    IF slots <= 0 THEN <<>>
    ELSE LET group_df == SelectSeq(WithRowIndex(df),
                            LAMBDA r : r.age_group = ag)
             sorted == StableSort(group_df,
                          [i \in DOMAIN group_df |->
                              [j \in DOMAIN group_df |->
                                  RankLess(group_df[i], group_df[j])]])
             top == HeadN(sorted, slots)
         IN  [i \in DOMAIN top |-> top[i].row_idx]

\* The row_idx list one dict item contributes (lines 292-306).
TopFinishers(df, ag, slots) ==
    IF slots <= 0 THEN <<>>
    ELSE LET group_df == SelectSeq(WithRowIndex(df),
                            LAMBDA r : r.age_group = ag /\ r.finisher)
             sorted == StableSort(group_df,
                          [i \in DOMAIN group_df |->
                              [j \in DOMAIN group_df |->
                                  RankLess(group_df[i], group_df[j])]])
             top == HeadN(sorted, slots)
         IN  [i \in DOMAIN top |-> top[i].row_idx]

\* determine_qualifiers: the loop over slot_allocation.items(), keys in dict
\* order.
RECURSIVE DetermineQualifiers(_, _, _)
DetermineQualifiers(df, keys, alloc) ==
    IF keys = <<>> THEN <<>>
    ELSE TopFinishers(df, Head(keys), alloc[Head(keys)])
            \o DetermineQualifiers(df, Tail(keys), alloc)

\* ------------------------------------------------------------------- Init
\* The state at the call of calculate_slot_allocation(data_frame,
\* mens_slots, womens_slots) with selector.json holding valid_age_groups.
\* Python's None as the value of max_pages (the default, "None for all").
None == -1

\* The fields of IronmanResultsScreen after __init__ (lines 393-416), with
\* the "name" column of self.df and the rows of the DataTable: no data is
\* loaded and nothing is displayed.
NoScreen ==
    [loaded |-> FALSE, name |-> <<>>, filtered_df |-> <<>>,
     active_filters |-> {}, sort_column |-> "None", sort_descending |-> FALSE,
     filter_column_name |-> "None", qualifier_rows |-> <<>>, table |-> <<>>]

ScraperIdle ==
    /\ screen = NoScreen
    /\ scraper_pc = "idle"
    /\ max_pages = None
    /\ page = 0
    /\ race_links = <<>>
    /\ requests = 0
    /\ response = [status_code |-> 0, cards |-> <<>>]

AtCall ==
    /\ ScraperIdle
    /\ pc = "start"
    /\ slot_df = <<>>
    /\ slot_allocation = <<>>
    /\ male_slots_total = 0
    /\ female_slots_total = 0
    /\ male_props = <<>>
    /\ female_props = <<>>
    /\ row_i = 1
    /\ dropped = [M |-> 0, F |-> 0]
    /\ qualifiers = <<>>

\* Calls that keep to the input contract: quotas >= 0, a non-empty list.
Init ==
    /\ data_frame \in Rosters
    /\ mens_slots \in MensQuotas
    /\ womens_slots \in Quotas
    /\ valid_age_groups \in ValidLists
    /\ AtCall

\* The input is outside the contract: a negative quota or an empty list.
InvalidInput ==
    mens_slots < 0 \/ womens_slots < 0 \/ valid_age_groups = <<>>

\* Calls that break the input contract.
InitInvalid ==
    /\ data_frame \in Rosters
    /\ mens_slots \in {0 - 1} \cup Quotas
    /\ womens_slots \in {0 - 1} \cup Quotas
    /\ valid_age_groups \in ValidLists \cup {<<>>}
    /\ InvalidInput
    /\ AtCall

\* ---------------------------------------------------------------- actions
\* Variant of InitialAllocation: the dict is keyed by the roster's groups.
InitialAllocation_FromRoster(valid) ==
    [ag \in GroupKeys(data_frame, valid) |-> 0]

\* Line 155: {ag: 0 for ag in valid_age_groups}
InitialAllocation(valid) == [ag \in Range(valid) |-> 0]

\* Lines 132-158: filter, group_by (which emits the groups in an order it
\* does not guarantee), left join, the all-zero dict and the two budgets.
Aggregate ==
    /\ pc = "start"
    /\ \E ord \in Perms(GroupKeys(data_frame, valid_age_groups)) :
          slot_df' = [i \in DOMAIN ord |->
                         SlotRow(data_frame, valid_age_groups, ord[i])]
    /\ slot_allocation' = InitialAllocation(valid_age_groups)
    /\ male_slots_total' = mens_slots
    /\ female_slots_total' = womens_slots
    /\ pc' = "minimum"
    /\ UNCHANGED <<scraper_vars, screen>>
    /\ UNCHANGED <<data_frame, mens_slots, womens_slots, valid_age_groups,
                   male_props, female_props, row_i, dropped, qualifiers>>

\* Variant of WithMinimum: the guarantee tests finishers_count.
WithMinimum_Finishers(alloc, rows) ==
    [ag \in DOMAIN alloc |->
        IF \E i \in DOMAIN rows :
              rows[i].age_group = ag /\ rows[i].finishers_count # 0
        THEN 1 ELSE alloc[ag]]

\* slot_allocation after "slot_allocation[age_group] = 1" for every row
\* with starters (lines 164-167).
WithMinimum(alloc, rows) ==
    [ag \in DOMAIN alloc |->
        IF \E i \in DOMAIN rows :
              rows[i].age_group = ag /\ rows[i].starters_count # 0
        THEN 1 ELSE alloc[ag]]

\* Lines 160-172: the minimum-guarantee loop over slot_df.
MinimumGuarantee ==
    /\ pc = "minimum"
    /\ slot_allocation' = WithMinimum(slot_allocation, slot_df)
    /\ male_slots_total' = male_slots_total -
          Cardinality({i \in DOMAIN slot_df :
              slot_df[i].starters_count # 0 /\ slot_df[i].gender = "M"})
    /\ female_slots_total' = female_slots_total -
          Cardinality({i \in DOMAIN slot_df :
              slot_df[i].starters_count # 0 /\ slot_df[i].gender # "M"})
    /\ pc' = "male_prop"
    /\ UNCHANGED <<scraper_vars, screen>>
    /\ UNCHANGED <<data_frame, mens_slots, womens_slots, valid_age_groups,
                   slot_df, male_props, female_props, row_i, dropped,
                   qualifiers>>

SumStarters(groups) ==
    SumSeq([i \in DOMAIN groups |-> groups[i].starters_count])

SumIntParts(props) == SumSeq([i \in DOMAIN props |-> IntPart(props[i])])

\* slot_allocation after "slot_allocation[age_group] += additional_slots"
\* for every row of props.
AddFloors(alloc, props) ==
    [ag \in DOMAIN alloc |->
        alloc[ag] + SumSeq([i \in DOMAIN props |->
                        IF props[i].age_group = ag THEN IntPart(props[i]) ELSE 0])]

\* Variant of AddRemainders: the leftover slots are never awarded.
AddRemainders_None(alloc, props, budget) == alloc

\* slot_allocation after the largest-remainder loop.
AddRemainders(alloc, props, budget) ==
    [ag \in DOMAIN alloc |->
        alloc[ag] + (IF ag \in RemainderWinners(props, budget) THEN 1 ELSE 0)]

\* Lines 183-197: proportional floors of the male categories.
ProportionalMale ==
    /\ pc = "male_prop"
    /\ IF male_slots_total > 0 /\ male_groups # <<>>
          /\ SumStarters(male_groups) > 0
       THEN LET props == WithProps(male_groups, SumStarters(male_groups),
                                   male_slots_total)
            IN  /\ male_props' = props
                /\ slot_allocation' = AddFloors(slot_allocation, props)
                /\ male_slots_total' = male_slots_total - SumIntParts(props)
       ELSE UNCHANGED <<male_props, slot_allocation, male_slots_total>>
    /\ pc' = "male_rem"
    /\ UNCHANGED <<scraper_vars, screen>>
    /\ UNCHANGED <<data_frame, mens_slots, womens_slots, valid_age_groups,
                   slot_df, female_slots_total, female_props, row_i, dropped,
                   qualifiers>>

\* Lines 199-209: largest-remainder correction of the male categories
\* (male_props is empty when the block of line 183 was not entered).
RemainderMale ==
    /\ pc = "male_rem"
    /\ slot_allocation' =
          IF male_props # <<>> /\ male_slots_total > 0
          THEN AddRemainders(slot_allocation, male_props, male_slots_total)
          ELSE slot_allocation
    /\ pc' = "female_prop"
    /\ UNCHANGED <<scraper_vars, screen>>
    /\ UNCHANGED <<data_frame, mens_slots, womens_slots, valid_age_groups,
                   slot_df, male_slots_total, female_slots_total, male_props,
                   female_props, row_i, dropped, qualifiers>>

\* Lines 211-227: proportional floors of the female categories.
ProportionalFemale ==
    /\ pc = "female_prop"
    /\ IF female_slots_total > 0 /\ female_groups # <<>>
          /\ SumStarters(female_groups) > 0
       THEN LET props == WithProps(female_groups, SumStarters(female_groups),
                                   female_slots_total)
            IN  /\ female_props' = props
                /\ slot_allocation' = AddFloors(slot_allocation, props)
                /\ female_slots_total' = female_slots_total - SumIntParts(props)
       ELSE UNCHANGED <<female_props, slot_allocation, female_slots_total>>
    /\ pc' = "female_rem"
    /\ UNCHANGED <<scraper_vars, screen>>
    /\ UNCHANGED <<data_frame, mens_slots, womens_slots, valid_age_groups,
                   slot_df, male_slots_total, male_props, row_i, dropped,
                   qualifiers>>

\* Lines 229-239: largest-remainder correction of the female categories
\* (female_props is empty when the block of line 211 was not entered).
RemainderFemale ==
    /\ pc = "female_rem"
    /\ slot_allocation' =
          IF female_props # <<>> /\ female_slots_total > 0
          THEN AddRemainders(slot_allocation, female_props, female_slots_total)
          ELSE slot_allocation
    /\ pc' = "realloc"
    /\ UNCHANGED <<scraper_vars, screen>>
    /\ UNCHANGED <<data_frame, mens_slots, womens_slots, valid_age_groups,
                   slot_df, male_slots_total, female_slots_total, male_props,
                   female_props, row_i, dropped, qualifiers>>

\* Variant of Withdrawable: the finishers_count test of line 247 is left out.
Withdrawable_AnyStarter(row, alloc) ==
    /\ row.starters_count > 0
    /\ row.age_group \in DOMAIN alloc
    /\ alloc[row.age_group] > 0

\* Variant of Withdrawable: the loop looks for rows without starters.
Withdrawable_NoStarters(row, alloc) ==
    /\ row.starters_count = 0
    /\ row.finishers_count = 0
    /\ row.age_group \in DOMAIN alloc
    /\ alloc[row.age_group] > 0

\* The row at row_i is withdrawn by the zero-finisher loop (lines 245-250).
Withdrawable(row, alloc) ==
    /\ row.starters_count > 0
    /\ row.finishers_count = 0
    /\ row.age_group \in DOMAIN alloc
    /\ alloc[row.age_group] > 0

\* The targets that get one slot each out of reallocate_slots (lines 259-272).
Awarded(row, alloc, reallocate_slots) ==
    LET unsorted == Ratios(TargetGroups(row.gender), alloc)
        ratios == StableSort(unsorted,
                      [i \in DOMAIN unsorted |->
                          [j \in DOMAIN unsorted |->
                              RatioGreater(unsorted[i], unsorted[j])]])
    IN  {ratios[i].tgroup : i \in {j \in DOMAIN ratios : j <= reallocate_slots}}

\* Lines 241-272: one iteration of the zero-finisher loop.
ReallocateRow ==
    /\ pc = "realloc"
    /\ row_i <= Len(slot_df)
    /\ LET row == slot_df[row_i]
       IN  IF Withdrawable(row, slot_allocation)
           THEN LET reallocate_slots == slot_allocation[row.age_group]
                    cleared == [slot_allocation EXCEPT ![row.age_group] = 0]
                    winners == Awarded(row, cleared, reallocate_slots)
                IN  /\ slot_allocation' =
                          [ag \in DOMAIN cleared |->
                              cleared[ag] + (IF ag \in winners THEN 1 ELSE 0)]
                    /\ dropped' =
                          [dropped EXCEPT ![Budget(row.gender)] =
                              @ + reallocate_slots - Cardinality(winners)]
           ELSE UNCHANGED <<slot_allocation, dropped>>
    /\ row_i' = row_i + 1
    /\ UNCHANGED <<scraper_vars, screen>>
    /\ UNCHANGED <<data_frame, mens_slots, womens_slots, valid_age_groups, pc,
                   slot_df, male_slots_total, female_slots_total, male_props,
                   female_props, qualifiers>>

\* Lines 274-278: every key of valid_age_groups is already in the dict; the
\* map is returned.
Return ==
    /\ pc = "realloc"
    /\ row_i > Len(slot_df)
    /\ pc' = "returned"
    /\ UNCHANGED <<scraper_vars, screen>>
    /\ UNCHANGED <<data_frame, mens_slots, womens_slots, valid_age_groups,
                   slot_df, slot_allocation, male_slots_total,
                   female_slots_total, male_props, female_props, row_i,
                   dropped, qualifiers>>

\* The keys of the dict in insertion order: the order of valid_age_groups.
DictKeys(alloc) == SelectSeq(valid_age_groups, LAMBDA ag : ag \in DOMAIN alloc)

\* Lines 281-308: the caller hands the roster and the map to
\* determine_qualifiers.
Select ==
    /\ pc = "returned"
    /\ qualifiers' =
          DetermineQualifiers(data_frame, DictKeys(slot_allocation),
                              slot_allocation)
    /\ pc' = "selected"
    /\ UNCHANGED <<scraper_vars, screen>>
    /\ UNCHANGED <<data_frame, mens_slots, womens_slots, valid_age_groups,
                   slot_df, slot_allocation, male_slots_total,
                   female_slots_total, male_props, female_props, row_i,
                   dropped>>

Next ==
    \/ Aggregate
    \/ MinimumGuarantee
    \/ ProportionalMale
    \/ RemainderMale
    \/ ProportionalFemale
    \/ RemainderFemale
    \/ ReallocateRow
    \/ Return
    \/ Select

Spec == Init /\ [][Next]_vars

\* The same function called outside its input contract.
SpecInvalid == InitInvalid /\ [][Next]_vars

\* ------------------------------------------------- the selector on its own
\* determine_qualifiers takes any dict: rosters in any row order with any
\* ranks, over two labels, and any dict over a sublist of them.
SelLabels == {"M35-39", "F18-24"}

SelRowSet ==
    {Row(ag, FALSE, 0) : ag \in SelLabels}
        \cup {Row(ag, TRUE, rk) : ag \in SelLabels, rk \in 1..MaxRank}

SelRosters ==
    {df \in UNION {[1..n -> SelRowSet] : n \in 0..MaxRows} : TotalOrder(df)}

InitSel ==
    /\ data_frame \in SelRosters
    /\ valid_age_groups \in {SubList(S) : S \in SUBSET SelLabels}
    /\ slot_allocation \in [Range(valid_age_groups) -> 0..MaxSlots]
    /\ pc = "returned"
    /\ mens_slots = 0
    /\ womens_slots = 0
    /\ slot_df = <<>>
    /\ male_slots_total = 0
    /\ female_slots_total = 0
    /\ male_props = <<>>
    /\ female_props = <<>>
    /\ row_i = 1
    /\ dropped = [M |-> 0, F |-> 0]
    /\ qualifiers = <<>>
    /\ ScraperIdle

NextSel == Select

SpecSel == InitSel /\ [][NextSel]_vars

\* ------------------------------------------------- the example scenario
\* M35-39 with 10 starters of which 8 finish (any two of the ten do not),
\* M40-44 with 5 starters none of which finishes, 3 male slots.
ExampleEntries(nf) ==
    [i \in 1..15 |->
        IF i <= 10 THEN <<"M35-39", i \notin nf>> ELSE <<"M40-44", FALSE>>]

InitExample ==
    /\ data_frame \in
          {Ranked(ExampleEntries(nf), scheme) :
              nf \in {x \in SUBSET (1..10) : Cardinality(x) = 2},
              scheme \in {"asc", "desc"}}
    /\ mens_slots = 3
    /\ womens_slots \in Quotas
    /\ valid_age_groups = <<"M35-39", "M40-44">>
    /\ AtCall

SpecExample == InitExample /\ [][Next]_vars

\* ------------------------------------------------------------- share runs
\* Rosters of up to MaxShareRows female starters in three categories, the
\* starters of a category all finishers (fin) or none; women's quotas up to
\* MaxShareSlots.
ShareEntries(n1, fin1, n2, fin2, n3, fin3) ==
    [i \in 1..(n1 + n2 + n3) |->
        IF i <= n1 THEN <<"F18-24", fin1>>
        ELSE IF i <= n1 + n2 THEN <<"F25-29", fin2>>
        ELSE <<"F30-34", fin3>>]

ShareCounts ==
    {c \in (0..MaxShareRows) \X (0..MaxShareRows) \X (0..MaxShareRows) :
        c[1] + c[2] + c[3] <= MaxShareRows}

InitShares ==
    /\ data_frame \in
          {Ranked(ShareEntries(c[1], f[1], c[2], f[2], c[3], f[3]), "asc") :
              c \in ShareCounts, f \in BOOLEAN \X BOOLEAN \X BOOLEAN}
    /\ mens_slots = 0
    /\ womens_slots \in 0..MaxShareSlots
    /\ valid_age_groups = SubList({"M35-39", "F18-24", "F25-29", "F30-34"})
    /\ AtCall

SpecShares == InitShares /\ [][Next]_vars

\* ------------------------------------------------------ IronmanResultsScreen
\* Rosters of the screen runs: up to MaxScreenRows rows of two categories,
\* each with a competitor name out of Names (two rows may carry the same
\* name), and quotas up to MaxScreenSlots.
ScreenLabels == {"M35-39", "F18-24"}

Names == {"ann", "bea"}

ScreenRosters ==
    {Ranked(e, "asc") :
        e \in UNION {[1..n -> ScreenLabels \X BOOLEAN] : n \in 0..MaxScreenRows}}

\* The columns the cursor is put on, and the byte order of their strings.
Columns == {"name", "age_group"}

StringOrder == <<"F18-24", "M35-39", "ann", "bea">>

SortKey(v) == CHOOSE i \in DOMAIN StringOrder : StringOrder[i] = v

\* The value of a column in the row of self.df with row index r.
Cell(r, column) ==
    IF column = "name" THEN screen.name[r + 1] ELSE data_frame[r + 1].age_group

\* Lines 465-505: the row indexes of self.df that pass every active filter,
\* in the order of self.df, or in an order temp_df.sort can produce (it does
\* not fix the order of rows with equal keys).
FilteredOrders(filters, column, descending) ==
    LET passing == SelectSeq([i \in DOMAIN data_frame |-> i - 1],
                       LAMBDA r : \A f \in filters : Cell(r, f[1]) = f[2])
    IN  IF column = "None" THEN {passing}
        ELSE {q \in Perms(Range(passing)) :
                \A i, j \in DOMAIN q :
                    i < j => IF descending
                             THEN SortKey(Cell(q[i], column))
                                    >= SortKey(Cell(q[j], column))
                             ELSE SortKey(Cell(q[i], column))
                                    <= SortKey(Cell(q[j], column))}

\* Lines 526-537: the names of the rows of self.df whose row_idx is in
\* qualifier_rows.
QualifierAthletes(qualifier_rows) ==
    {screen.name[r + 1] : r \in Range(qualifier_rows)}

\* Lines 511-560, populate_table: one table row per row of filtered_df,
\* styled as a qualifier when its name is in qualifier_athletes.
PopulateTable(filtered_df, qualifier_rows) ==
    [k \in DOMAIN filtered_df |->
        [row_idx |-> filtered_df[k],
         highlighted |->
            Cell(filtered_df[k], "name") \in QualifierAthletes(qualifier_rows)]]

\* ---------------------------------------------------------- get_race_links
\* The responses requests.get can return for a race-list page: a status
\* other than 200, or status 200 with up to MaxCards race cards, each with
\* (TRUE) or without (FALSE) an <a href>.  From page MaxSitePages on the site
\* has no more races to list.
CardLists == UNION {[1..n -> BOOLEAN] : n \in 0..MaxCards}

Responses(p) ==
    {[status_code |-> 404, cards |-> <<>>]}
        \cup {[status_code |-> 200, cards |-> c] :
                c \in IF p < MaxSitePages THEN CardLists ELSE {<<>>}}

\* The race URLs one page adds to race_links (lines 126-131).
PageLinks(p, cards) ==
    LET linked == SelectSeq([k \in DOMAIN cards |-> k], LAMBDA k : cards[k])
    IN  [k \in DOMAIN linked |-> <<p, linked[k]>>]

\* The loop breaks on this response (lines 112-116, 121-123, 134-135).
StopsLoop(r) ==
    \/ r.status_code # 200
    \/ r.cards = <<>>
    \/ PageLinks(0, r.cards) = <<>>

\* "if max_pages and page > max_pages" (line 103): None and 0 are falsy.
PageLimitReached(mp, p) == mp # None /\ mp # 0 /\ p > mp

\* The state at the call of get_race_links(race_types, regions, max_pages).
InitScraper ==
    /\ scraper_pc = "loop"
    /\ max_pages \in {None} \cup 0..MaxPageLimit
    /\ page = 0
    /\ race_links = <<>>
    /\ requests = 0
    /\ response = [status_code |-> 0, cards |-> <<>>]
    /\ screen = NoScreen
    /\ pc = "idle"
    /\ data_frame = <<>>
    /\ mens_slots = 0
    /\ womens_slots = 0
    /\ valid_age_groups = <<>>
    /\ slot_df = <<>>
    /\ slot_allocation = <<>>
    /\ male_slots_total = 0
    /\ female_slots_total = 0
    /\ male_props = <<>>
    /\ female_props = <<>>
    /\ row_i = 1
    /\ dropped = [M |-> 0, F |-> 0]
    /\ qualifiers = <<>>

\* Lines 102-141: one pass through the body of "while True"; a break leaves
\* the loop and the function returns race_links.
LoopIteration ==
    /\ scraper_pc = "loop"
    /\ IF PageLimitReached(max_pages, page)
       THEN /\ scraper_pc' = "returned"
            /\ UNCHANGED <<page, race_links, requests, response>>
       ELSE \E r \in Responses(page) :
                /\ requests' = requests + 1
                /\ response' = r
                /\ IF StopsLoop(r)
                   THEN /\ scraper_pc' = "returned"
                        /\ UNCHANGED <<page, race_links>>
                   ELSE /\ race_links' = race_links \o PageLinks(page, r.cards)
                        /\ page' = page + 1
                        /\ scraper_pc' = "loop"
    /\ UNCHANGED <<max_pages, data_frame, mens_slots, womens_slots,
                   valid_age_groups, pc, slot_df, slot_allocation,
                   male_slots_total, female_slots_total, male_props,
                   female_props, row_i, dropped, qualifiers, screen>>

NextScraper == LoopIteration

SpecScraper == InitScraper /\ [][NextScraper]_vars

\* ------------------------------------------------------------------ claims
\* C11: with a positive max_pages at most max_pages race-list pages are
\* fetched, and the loop is left at the first page that returns a status
\* other than 200, has no race cards or yields no race link.
C11_PageLimit ==
    /\ max_pages > 0 => requests <= max_pages
    /\ (requests > 0 /\ StopsLoop(response)) => scraper_pc = "returned"

ValidSet == Range(valid_age_groups)

Returned == pc \in {"returned", "selected"}

\* Before the zero-finisher loop has looked at any row.
BeforeReallocation == pc = "realloc" /\ row_i = 1

Starters(ag) == StartersCount(data_frame, valid_age_groups, ag)

Finishers(ag) == FinishersCount(data_frame, valid_age_groups, ag)

\* Sum of the slot counts of the labels of S.
SlotsOf(S) ==
    LET keys == SubList(S \cap DOMAIN slot_allocation)
    IN  SumSeq([i \in DOMAIN keys |-> slot_allocation[keys[i]]])

QuotaOf(g) == IF g = "M" THEN mens_slots ELSE womens_slots

\* The valid categories of gender g, and those of them that have starters.
OfGender(g) == {ag \in ValidSet : Gender(ag) = g}

NonEmpty(g) == {ag \in OfGender(g) : Starters(ag) > 0}

\* The valid categories charged to budget b, and those that have starters.
Charged(b) == {ag \in ValidSet : Budget(Gender(ag)) = b}

NonEmptyCharged(b) == {ag \in Charged(b) : Starters(ag) > 0}

\* C1: the returned map has exactly the valid categories as keys and every
\* value is a non-negative integer.
C1_KeysAndCounts ==
    Returned =>
        /\ DOMAIN slot_allocation = ValidSet
        /\ \A ag \in DOMAIN slot_allocation : slot_allocation[ag] \in Nat

C1_Witness ==
    /\ pc = "returned"
    /\ \E ag \in ValidSet : Starters(ag) = 0
    /\ \E ag \in ValidSet : slot_allocation[ag] >= 2
    /\ \E i \in DOMAIN data_frame : data_frame[i].age_group \notin ValidSet

C3_ConservedBeforeReallocation ==
    BeforeReallocation =>
        \A g \in {"M", "F"} :
            (/\ NonEmpty(g) # {}
             /\ QuotaOf(g) >= Cardinality(NonEmpty(g)))
                => SlotsOf(OfGender(g)) = QuotaOf(g)

C5_ZeroFinishersEndAtZero ==
    Returned =>
        \A ag \in ValidSet :
            (Starters(ag) > 0 /\ Finishers(ag) = 0) => slot_allocation[ag] = 0

\* Two zero-finisher categories of one budget were withdrawn and a third
\* category took slots from them.
C5_Witness ==
    /\ pc = "returned"
    /\ \E a, b, t \in ValidSet :
          /\ a # b
          /\ Budget(Gender(a)) = Budget(Gender(b))
          /\ Budget(Gender(t)) = Budget(Gender(a))
          /\ Starters(a) > 0 /\ Finishers(a) = 0
          /\ Starters(b) > 0 /\ Finishers(b) = 0
          /\ Finishers(t) > 0
          /\ slot_allocation[t] >= 2

\* The roster without the rows of categories outside the valid set.
StripInvalid(df) == SelectSeq(df, LAMBDA r : r.age_group \in ValidSet)

\* C8: categories outside the valid set are never keys of the map and none
\* of their rows is a qualifier; a valid category without roster rows has 0
\* slots; the aggregated rows the allocation is computed from are those of
\* the roster without the rows of non-valid categories.
C8_InvalidCategoriesExcluded ==
    /\ DOMAIN slot_allocation \subseteq ValidSet
    /\ pc # "start" =>
          \A ag \in ValidSet : Starters(ag) = 0 => slot_allocation[ag] = 0
    /\ \A k \in DOMAIN qualifiers :
          data_frame[qualifiers[k] + 1].age_group \in ValidSet
    /\ pc = "minimum" =>
          /\ Range(slot_df) =
                {SlotRow(StripInvalid(data_frame), valid_age_groups, ag) :
                    ag \in GroupKeys(StripInvalid(data_frame), valid_age_groups)}
          /\ Len(slot_df) = Cardinality(Range(slot_df))

C8_Witness ==
    /\ pc = "selected"
    /\ qualifiers # <<>>
    /\ \E i \in DOMAIN data_frame :
          /\ data_frame[i].age_group \notin ValidSet
          /\ data_frame[i].finisher
    /\ \E ag \in ValidSet : Starters(ag) = 0

\* C9: with an empty valid list or a negative quota no map is returned.
C9_FailsFast == InvalidInput => ~Returned

\* The finishers of category ag, as row positions of data_frame.
FinisherRows(ag) ==
    {i \in DOMAIN data_frame :
        data_frame[i].age_group = ag /\ data_frame[i].finisher}

\* The row identifiers returned for category ag, in the order returned.
QualifiersOf(ag) ==
    SelectSeq(qualifiers, LAMBDA r : data_frame[r + 1].age_group = ag)

RankOfRow(r) == data_frame[r + 1].age_group_rank

\* Every returned identifier is a finisher of a category that has slots.
OnlyAllocatedFinishers ==
    \A k \in DOMAIN qualifiers :
        /\ qualifiers[k] + 1 \in DOMAIN data_frame
        /\ data_frame[qualifiers[k] + 1].finisher
        /\ data_frame[qualifiers[k] + 1].age_group \in DOMAIN slot_allocation
        /\ slot_allocation[data_frame[qualifiers[k] + 1].age_group] > 0

\* C6: for a category with N > 0 slots and at least N finishers the selector
\* returns N of its finishers, in ascending rank order, every finisher left
\* out ranked after every one returned; nothing but finishers of categories
\* with slots is returned.
C6_SelectorCorrect ==
    pc = "selected" =>
        /\ OnlyAllocatedFinishers
        /\ \A ag \in DOMAIN slot_allocation :
              LET N == slot_allocation[ag]
                  Q == QualifiersOf(ag)
              IN  (N > 0 /\ Cardinality(FinisherRows(ag)) >= N) =>
                      /\ Len(Q) = N
                      /\ \A k \in DOMAIN Q : Q[k] + 1 \in FinisherRows(ag)
                      /\ \A k, l \in DOMAIN Q :
                            k < l => RankOfRow(Q[k]) < RankOfRow(Q[l])
                      /\ \A i \in FinisherRows(ag) :
                            (i - 1) \notin Range(Q) =>
                                \A k \in DOMAIN Q :
                                    RankOfRow(Q[k]) < RankOfRow(i - 1)

\* A category with 2 slots and 3 finishers whose rank order is not the row
\* order, beside another category that also has qualifiers.
C6_Witness ==
    /\ pc = "selected"
    /\ \E ag \in DOMAIN slot_allocation :
          /\ slot_allocation[ag] >= 2
          /\ Cardinality(FinisherRows(ag)) > slot_allocation[ag]
          /\ \E i, j \in FinisherRows(ag) :
                i < j /\ data_frame[i].age_group_rank > data_frame[j].age_group_rank
    /\ Len(qualifiers) >= 2

\* C7: for a category with fewer finishers than slots the selector returns
\* each of its finishers once and nothing else; a category without finishers
\* or without slots gets no entry.
C7_SelectorUnderFill ==
    pc = "selected" =>
        /\ OnlyAllocatedFinishers
        /\ \A ag \in DOMAIN slot_allocation :
              LET N == slot_allocation[ag]
                  Q == QualifiersOf(ag)
              IN  /\ Cardinality(FinisherRows(ag)) < N =>
                        /\ Range(Q) = {i - 1 : i \in FinisherRows(ag)}
                        /\ Len(Q) = Cardinality(FinisherRows(ag))
                  /\ (FinisherRows(ag) = {} \/ N = 0) => Q = <<>>

\* One category with more slots than finishers and a starter that did not
\* finish, another with slots and no finisher at all.
C7_Witness ==
    /\ pc = "selected"
    /\ \E ag, other \in DOMAIN slot_allocation :
          /\ ag # other
          /\ FinisherRows(ag) # {}
          /\ Cardinality(FinisherRows(ag)) < slot_allocation[ag]
          /\ \E i \in DOMAIN data_frame :
                data_frame[i].age_group = ag /\ ~data_frame[i].finisher
          /\ slot_allocation[other] > 0
          /\ FinisherRows(other) = {}
          /\ \E i \in DOMAIN data_frame : data_frame[i].age_group = other

\* C10: in the example scenario both categories get the minimum 1, the one
\* remaining slot goes to M35-39, the slot of M40-44 is withdrawn and given
\* to M35-39, the map returned is {M35-39: 3, M40-44: 0}, and the selector
\* returns the finishers of M35-39 ranked 1, 2 and 3, in that order.
C10_ExampleScenario ==
    /\ pc = "male_prop" =>
          /\ slot_allocation = [ag \in {"M35-39", "M40-44"} |-> 1]
          /\ male_slots_total = 1
    /\ BeforeReallocation =>
          slot_allocation =
              [ag \in {"M35-39", "M40-44"} |-> IF ag = "M35-39" THEN 2 ELSE 1]
    /\ Returned =>
          slot_allocation =
              [ag \in {"M35-39", "M40-44"} |-> IF ag = "M35-39" THEN 3 ELSE 0]
    /\ pc = "selected" =>
          /\ Len(qualifiers) = 3
          /\ \A k \in 1..3 :
                /\ data_frame[qualifiers[k] + 1].age_group = "M35-39"
                /\ data_frame[qualifiers[k] + 1].finisher
                /\ RankOfRow(qualifiers[k]) = k

\* The scenario with the fastest finishers last in the roster.
C10_Witness ==
    /\ pc = "selected"
    /\ Len(qualifiers) = 3
    /\ qualifiers[1] > qualifiers[2]
    /\ slot_allocation["M35-39"] = 3

\* The prop_slots rows and the budget left after flooring of gender g.
PropsOf(g) == IF g = "M" THEN male_props ELSE female_props

LeftOf(g) == IF g = "M" THEN male_slots_total ELSE female_slots_total

\* C12: when exactly one slot is left for a gender after flooring, one
\* category of the gender holds its minimum slot, its floor and that slot,
\* every other one its minimum slot and its floor, and no category of the
\* gender has a larger exact fractional remainder than the one awarded.
C12_LargestRemainder ==
    BeforeReallocation =>
        \A g \in {"M", "F"} :
            (PropsOf(g) # <<>> /\ LeftOf(g) = 1) =>
                \E w \in DOMAIN PropsOf(g) :
                    /\ slot_allocation[PropsOf(g)[w].age_group]
                          = 1 + IntPart(PropsOf(g)[w]) + 1
                    /\ \A q \in DOMAIN PropsOf(g) \ {w} :
                          /\ slot_allocation[PropsOf(g)[q].age_group]
                                = 1 + IntPart(PropsOf(g)[q])
                          /\ FracNum(PropsOf(g)[w]) >= FracNum(PropsOf(g)[q])

\* The single leftover slot went to a category with the smaller floor and
\* the smaller starters_count.
C12_Witness ==
    /\ BeforeReallocation
    /\ female_props # <<>>
    /\ female_slots_total = 1
    /\ \E w, q \in DOMAIN female_props :
          /\ slot_allocation[female_props[w].age_group]
                = IntPart(female_props[w]) + 2
          /\ IntPart(female_props[q]) > IntPart(female_props[w])
          /\ female_props[q].s > female_props[w].s
          /\ FracNum(female_props[w]) > FracNum(female_props[q])

\* C13: in the returned map, for a gender whose categories with starters
\* outnumber its quota, each of those categories holds exactly the 1 slot of
\* the minimum guarantee.
C13_BudgetExhausted ==
    Returned =>
        \A g \in {"M", "F"} :
            Cardinality(NonEmpty(g)) > QuotaOf(g) =>
                \A ag \in NonEmpty(g) : slot_allocation[ag] = 1

\* The categories of the gender of row that have finishers.
SameGenderTargets(row) ==
    {ag \in ValidSet : Gender(ag) = row.gender /\ Finishers(ag) > 0}

\* Sum of the values of alloc over the labels of S.
SumAlloc(alloc, S) ==
    LET keys == SubList(S \cap DOMAIN alloc)
    IN  SumSeq([i \in DOMAIN keys |-> alloc[keys[i]]])

\* The step of the zero-finisher loop on a row with starters, no finisher
\* and k > 0 slots, as C14 states it: W is the set of targets awarded.
WithdrawalStep(row, k, targets) ==
    LET m == IF k < Cardinality(targets) THEN k ELSE Cardinality(targets)
    IN  /\ slot_allocation'[row.age_group] = 0
        /\ \E W \in SUBSET targets :
              /\ Cardinality(W) = m
              /\ \A ag \in DOMAIN slot_allocation \ {row.age_group} :
                    slot_allocation'[ag] =
                        slot_allocation[ag] + (IF ag \in W THEN 1 ELSE 0)
              /\ \A w \in W : \A o \in targets \ W :
                    Starters(w) * Max(1, slot_allocation[o])
                        >= Starters(o) * Max(1, slot_allocation[w])
        /\ SumAlloc(slot_allocation', OfGender(row.gender))
              = SumAlloc(slot_allocation, OfGender(row.gender)) - (k - m)

\* C14: when the zero-finisher loop processes a category with starters, no
\* finisher and k > 0 slots, the category drops to 0, min(k, t) slots go one
\* each to the best min(k, t) of the t same-gender categories with finishers,
\* ranked by starters_count / max(1, allocation), and the gender's total
\* falls by the k - min(k, t) slots left over.
C14_ReallocationStep ==
    [][(/\ pc = "realloc"
        /\ row_i <= Len(slot_df)
        /\ Withdrawable(slot_df[row_i], slot_allocation))
          => WithdrawalStep(slot_df[row_i],
                            slot_allocation[slot_df[row_i].age_group],
                            SameGenderTargets(slot_df[row_i]))]_vars

\* Category i of gender g got one of the leftover slots.
GotLeftover(g, i) ==
    slot_allocation[PropsOf(g)[i].age_group] = 1 + IntPart(PropsOf(g)[i]) + 1

\* C15: of two categories of one gender whose proportional shares have the
\* same fractional remainder, the one that comes later in the aggregated row
\* order gets a leftover slot only if the earlier one gets one too.
C15_StableTieBreak ==
    BeforeReallocation =>
        \A g \in {"M", "F"} :
            (PropsOf(g) # <<>> /\ LeftOf(g) > 0) =>
                \A i, j \in DOMAIN PropsOf(g) :
                    (i < j /\ FracNum(PropsOf(g)[i]) = FracNum(PropsOf(g)[j]))
                        => (GotLeftover(g, j) => GotLeftover(g, i))

\* The budget of gender g after the minimum guarantee, the starters of its
\* categories, and the floor of the proportional share of category ag.
BudgetAfterMinimum(g) == QuotaOf(g) - Cardinality(NonEmptyCharged(g))

TotalStarters(g) ==
    LET keys == SubList(NonEmpty(g))
    IN  SumSeq([i \in DOMAIN keys |-> Starters(keys[i])])

ShareFloor(g, ag) == (Starters(ag) * BudgetAfterMinimum(g)) \div TotalStarters(g)

SumShareFloors(g) ==
    LET keys == SubList(NonEmpty(g))
    IN  SumSeq([i \in DOMAIN keys |-> ShareFloor(g, keys[i])])

\* C16: for a gender with a positive budget R after the minimum guarantee,
\* the proportional and largest-remainder phases add to each category with
\* starters the floor of starters / total starters * R or that floor plus 1;
\* the budget left after flooring is smaller than the number of those
\* categories and exactly that many of them get the extra slot.
C16_QuotaRule ==
    BeforeReallocation =>
        \A g \in {"M", "F"} :
            (BudgetAfterMinimum(g) > 0 /\ NonEmpty(g) # {}) =>
                /\ \A ag \in NonEmpty(g) :
                      slot_allocation[ag] - 1 - ShareFloor(g, ag) \in {0, 1}
                /\ LeftOf(g) = BudgetAfterMinimum(g) - SumShareFloors(g)
                /\ LeftOf(g) >= 0
                /\ LeftOf(g) < Cardinality(NonEmpty(g))
                /\ Cardinality({ag \in NonEmpty(g) :
                        slot_allocation[ag] = ShareFloor(g, ag) + 2}) = LeftOf(g)

\* Three female categories, one of them with a floor of at least 1, share
\* a budget that leaves slots after flooring; one category gets an extra
\* slot and another does not.
C16_Witness ==
    /\ BeforeReallocation
    /\ BudgetAfterMinimum("F") > 0
    /\ Cardinality(NonEmpty("F")) = 3
    /\ LeftOf("F") >= 1
    /\ \E a, b, c \in NonEmpty("F") :
          /\ ShareFloor("F", a) >= 1
          /\ slot_allocation[b] = ShareFloor("F", b) + 2
          /\ slot_allocation[c] = ShareFloor("F", c) + 1

\* ------------------------------------------- the allocation as a function
\* calculate_slot_allocation as a function of the aggregated rows sdf (the
\* roster, the quotas and the valid list are those of the state).
GroupsIn(sdf, g) ==
    SelectSeq(sdf, LAMBDA r : r.gender = g /\ r.starters_count > 0)

\* Lines 183-209 / 211-239 for the groups of one gender.
SharesIn(alloc, groups, budget) ==
    IF budget > 0 /\ groups # <<>>
    THEN LET props == WithProps(groups, SumStarters(groups), budget)
             left == budget - SumIntParts(props)
         IN  IF left > 0
             THEN AddRemainders(AddFloors(alloc, props), props, left)
             ELSE AddFloors(alloc, props)
    ELSE alloc

\* Lines 254-272 for one withdrawn row.
AwardedIn(sdf, row, alloc, reallocate_slots) ==
    LET groups == GroupsIn(sdf, IF row.gender = "M" THEN "M" ELSE "F")
        unsorted == Ratios(SelectSeq(groups, LAMBDA r : r.finishers_count > 0),
                           alloc)
        ratios == StableSort(unsorted,
                      [i \in DOMAIN unsorted |->
                          [j \in DOMAIN unsorted |->
                              RatioGreater(unsorted[i], unsorted[j])]])
    IN  {ratios[i].tgroup : i \in {j \in DOMAIN ratios : j <= reallocate_slots}}

RECURSIVE ReallocatedIn(_, _, _)
\* Lines 241-272 from row i of sdf on.
ReallocatedIn(sdf, alloc, i) ==
    IF i > Len(sdf) THEN alloc
    ELSE IF Withdrawable(sdf[i], alloc)
         THEN LET cleared == [alloc EXCEPT ![sdf[i].age_group] = 0]
                  winners == AwardedIn(sdf, sdf[i], cleared,
                                       alloc[sdf[i].age_group])
              IN  ReallocatedIn(sdf,
                      [ag \in DOMAIN cleared |->
                          cleared[ag] + (IF ag \in winners THEN 1 ELSE 0)],
                      i + 1)
         ELSE ReallocatedIn(sdf, alloc, i + 1)

\* Lines 155-278 for the rows sdf and the quotas mens and womens.
AllocationWith(sdf, mens, womens) ==
    LET minimum == WithMinimum(InitialAllocation(valid_age_groups), sdf)
        male == mens - Cardinality({i \in DOMAIN sdf :
                    sdf[i].starters_count # 0 /\ sdf[i].gender = "M"})
        female == womens - Cardinality({i \in DOMAIN sdf :
                    sdf[i].starters_count # 0 /\ sdf[i].gender # "M"})
        shared == SharesIn(SharesIn(minimum, GroupsIn(sdf, "M"), male),
                           GroupsIn(sdf, "F"), female)
    IN  ReallocatedIn(sdf, shared, 1)

AllocationFor(sdf) == AllocationWith(sdf, mens_slots, womens_slots)

\* The aggregated rows in the order of LabelOrder.
CanonicalRows ==
    LET keys == SubList(GroupKeys(data_frame, valid_age_groups))
    IN  [i \in DOMAIN keys |-> SlotRow(data_frame, valid_age_groups, keys[i])]

\* C17: the returned map does not depend on the order in which group_by
\* emitted the categories: it is the map computed from the rows in any one
\* fixed order.
C17_OrderIndependent ==
    Returned => slot_allocation = AllocationFor(CanonicalRows)

\* The aggregated rows of the categories of gender g, in the order emitted.
RowsOfGender(g) == SelectSeq(slot_df, LAMBDA r : r.gender = g)

\* C18: the slot counts of the male categories in the returned map are
\* those computed from the male rows and mens_slots alone, and the slot
\* counts of the female categories those computed from the female rows and
\* womens_slots alone.
C18_GenderIndependence ==
    Returned =>
        /\ \A ag \in OfGender("M") :
              slot_allocation[ag] =
                  AllocationWith(RowsOfGender("M"), mens_slots, 0)[ag]
        /\ \A ag \in OfGender("F") :
              slot_allocation[ag] =
                  AllocationWith(RowsOfGender("F"), 0, womens_slots)[ag]

\* C19: in the returned map every category with a positive slot count has
\* at least one finisher, and determine_qualifiers run on the roster with
\* that map returns min(slot count, finishers_count) qualifiers for each
\* category, at least one for each category with a positive slot count.
C19_SlotsHaveFinishers ==
    /\ Returned =>
          \A ag \in DOMAIN slot_allocation :
              slot_allocation[ag] > 0 => Finishers(ag) >= 1
    /\ pc = "selected" =>
          \A ag \in DOMAIN slot_allocation :
              /\ Len(QualifiersOf(ag)) =
                    (IF slot_allocation[ag] < Finishers(ag)
                     THEN slot_allocation[ag] ELSE Finishers(ag))
              /\ slot_allocation[ag] > 0 => Len(QualifiersOf(ag)) >= 1

\* Qualifiers were selected from a map in which one category has more slots
\* than finishers, one fewer, and one with starters but no finisher lost
\* its slot.
C19_Witness ==
    /\ pc = "selected"
    /\ \E a, b, c \in DOMAIN slot_allocation :
          /\ Finishers(a) >= 1 /\ slot_allocation[a] > Finishers(a)
          /\ slot_allocation[b] >= 1 /\ slot_allocation[b] < Finishers(b)
          /\ Starters(c) > 0 /\ Finishers(c) = 0 /\ slot_allocation[c] = 0

\* C20: whatever the quotas, from the minimum guarantee on every valid
\* category with a finisher holds at least 1 slot, and no step of the
\* zero-finisher loop lowers the slot count of a category with a finisher.
C20_FinishersKeepSlots ==
    /\ [](pc \notin {"start", "minimum"} =>
            \A ag \in ValidSet :
                Finishers(ag) >= 1 => slot_allocation[ag] >= 1)
    /\ [][pc = "realloc" =>
            \A ag \in ValidSet :
                Finishers(ag) >= 1 => slot_allocation'[ag] >= slot_allocation[ag]]_vars

\* A female quota below the number of categories charged to it; a category
\* with a finisher took the slot withdrawn from one without.
C20_Witness ==
    /\ pc = "returned"
    /\ womens_slots < Cardinality(NonEmptyCharged("F"))
    /\ \E a, c \in OfGender("F") :
          /\ Finishers(a) >= 1 /\ slot_allocation[a] >= 2
          /\ Starters(c) > 0 /\ Finishers(c) = 0

\* ---------------------------------------------- IronmanResultsScreen actions
\* Lines 428-460, on_mount: the roster and the quotas are loaded and the
\* table is populated with every row, no filter, no sort, no highlight.
InitScreen ==
    /\ data_frame \in ScreenRosters
    /\ mens_slots \in 0..MaxScreenSlots
    /\ womens_slots \in 0..MaxScreenSlots
    /\ valid_age_groups = SubList(ScreenLabels)
    /\ \E names \in [DOMAIN data_frame -> Names] :
          screen = [NoScreen EXCEPT
                      !.loaded = TRUE,
                      !.name = names,
                      !.filtered_df = [i \in DOMAIN data_frame |-> i - 1],
                      !.table = [i \in DOMAIN data_frame |->
                                    [row_idx |-> i - 1, highlighted |-> FALSE]]]
    /\ pc = "idle"
    /\ slot_df = <<>>
    /\ slot_allocation = <<>>
    /\ male_slots_total = 0
    /\ female_slots_total = 0
    /\ male_props = <<>>
    /\ female_props = <<>>
    /\ row_i = 1
    /\ dropped = [M |-> 0, F |-> 0]
    /\ qualifiers = <<>>
    /\ scraper_pc = "idle"
    /\ max_pages = None
    /\ page = 0
    /\ race_links = <<>>
    /\ requests = 0
    /\ response = [status_code |-> 0, cards |-> <<>>]

\* Lines 462-509, apply_filters_and_populate, after the handler has set the
\* fields of after.
ApplyFiltersAndPopulate(after) ==
    \E filtered_df \in FilteredOrders(after.active_filters, after.sort_column,
                                      after.sort_descending) :
        screen' = [after EXCEPT
                     !.filtered_df = filtered_df,
                     !.table = PopulateTable(filtered_df, after.qualifier_rows)]

ScreenOnly ==
    UNCHANGED <<data_frame, mens_slots, womens_slots, valid_age_groups, pc,
                slot_df, slot_allocation, male_slots_total,
                female_slots_total, male_props, female_props, row_i, dropped,
                qualifiers, scraper_vars>>

\* Lines 738-786, action_highlight_qualifiers.
HighlightQualifiers ==
    /\ screen.loaded
    /\ IF mens_slots = 0 /\ womens_slots = 0
       THEN UNCHANGED screen
       ELSE IF screen.qualifier_rows # <<>>
       THEN screen' = [screen EXCEPT
                         !.qualifier_rows = <<>>,
                         !.table = PopulateTable(screen.filtered_df, <<>>)]
       ELSE \E ord \in Perms(GroupKeys(data_frame, valid_age_groups)) :
               LET sdf == [i \in DOMAIN ord |->
                              SlotRow(data_frame, valid_age_groups, ord[i])]
                   alloc == AllocationFor(sdf)
                   rows == DetermineQualifiers(data_frame, DictKeys(alloc),
                                               alloc)
               IN  screen' = [screen EXCEPT
                                !.qualifier_rows = rows,
                                !.table = IF rows = <<>> THEN @
                                          ELSE PopulateTable(screen.filtered_df,
                                                             rows)]
    /\ ScreenOnly

\* Lines 562-592, action_sort_column, with the cursor on column.
SortColumn ==
    /\ screen.loaded
    /\ \E column \in Columns :
          ApplyFiltersAndPopulate(
              [screen EXCEPT
                 !.sort_column = column,
                 !.sort_descending =
                    IF screen.sort_column = column THEN ~@ ELSE FALSE])
    /\ ScreenOnly

\* Lines 594-607, action_reset_view.
ResetView ==
    /\ screen.loaded
    /\ ApplyFiltersAndPopulate(
          [screen EXCEPT
             !.active_filters = {},
             !.sort_column = "None",
             !.sort_descending = FALSE,
             !.filter_column_name = "None",
             !.qualifier_rows = <<>>])
    /\ ScreenOnly

\* Lines 609-692, action_filter_column, with the cursor on column: the
\* select is offered unless the column has no value.
FilterColumn ==
    /\ screen.loaded
    /\ \E column \in Columns :
          IF data_frame = <<>>
          THEN UNCHANGED screen
          ELSE screen' = [screen EXCEPT !.filter_column_name = column]
    /\ ScreenOnly

\* Lines 694-736, on_select_changed: the user leaves the select blank,
\* picks "-- Clear Filter --" or picks a value of the column.
SelectChanged ==
    /\ screen.loaded
    /\ screen.filter_column_name # "None"
    /\ LET column == screen.filter_column_name
           closed == [screen EXCEPT !.filter_column_name = "None"]
           others == {f \in screen.active_filters : f[1] # column}
       IN  \E value \in {"BLANK", "--clear--"}
                   \cup {Cell(i - 1, column) : i \in DOMAIN data_frame} :
              IF value = "BLANK" THEN screen' = closed
              ELSE IF value = "--clear--"
              THEN IF others # screen.active_filters
                   THEN ApplyFiltersAndPopulate(
                            [closed EXCEPT !.active_filters = others])
                   ELSE screen' = closed
              ELSE IF <<column, value>> \notin screen.active_filters
                   THEN ApplyFiltersAndPopulate(
                            [closed EXCEPT !.active_filters =
                                others \cup {<<column, value>>}])
                   ELSE screen' = closed
    /\ ScreenOnly

NextScreen ==
    \/ HighlightQualifiers
    \/ SortColumn
    \/ ResetView
    \/ FilterColumn
    \/ SelectChanged

SpecScreen == InitScreen /\ [][NextScreen]_vars

\* The row indexes the Selector returned to the screen.
QualifierRows == Range(screen.qualifier_rows)

\* C21: a displayed row is highlighted if and only if its row index in the
\* loaded roster is in qualifier_rows, also when two roster rows carry the
\* same name; and qualifier_rows is non-empty only if mens_slots or
\* womens_slots is not 0.
C21_HighlightMatchesQualifiers ==
    /\ \A k \in DOMAIN screen.table :
          screen.table[k].highlighted <=> screen.table[k].row_idx \in QualifierRows
    /\ screen.qualifier_rows # <<>> => (mens_slots # 0 \/ womens_slots # 0)

====
